---- MODULE Spec2Model ----
(***************************************************************************)
(* TulipAgent (tulip/tulip_agent.py): the query loop                       *)
(*   Decompose -> SearchTools -> RespondWithTools                          *)
(*             -> (ExecuteTools -> RespondWithTools)* -> Done              *)
(* and the tool search search_tools.                                       *)
(*                                                                         *)
(* The chat-completion API and the model behind it are the environment:    *)
(* every attempt of __get_response either raises OpenAIError or returns a  *)
(* response whose message the environment chooses.  The tool library       *)
(* (tool_library.py) is given by its search table and its registered       *)
(* names.                                                                  *)
(***************************************************************************)
EXTENDS Integers, Sequences, FiniteSets, TLC

\* ------------------------------------------------------------------ bounds

\* query invocations on one agent
MaxQueries == 2
\* successful chat-completion calls on one agent
MaxApiCalls == 6
\* consecutive OpenAIErrors inside one __get_response invocation
MaxErrors == 2
\* action descriptions in one search_tools call
MaxDescs == 2

\* ---------------------------------------------------------- program constants

\* TulipAgent.__init__: top_k_functions: int = 3
top_k_functions == 3

\* ------------------------------------------------------------ tool library

\* names of the functions registered in the tool library
Registered == {"capital", "language", "area"}

\* the action descriptions a search may be asked for
Descriptions == {"d1", "d2"}

\* the document (a JSON string) the library stores for a registered function
Document(name) == [document |-> name]

Documents == {Document(n) : n \in Registered}

\* json.loads of a stored document: the tool schema handed to the model
json_loads(e) == [type |-> "function", name |-> e.document]

InSeq(e, s) == \E i \in 1..Len(s) : s[i] = e

Distinct(s) == \A i, j \in 1..Len(s) : i # j => s[i] # s[j]

RECURSIVE SeqsUpTo(_, _)
SeqsUpTo(S, n) ==
    IF n = 0 THEN {<<>>}
    ELSE LET shorter == SeqsUpTo(S, n - 1)
         IN  shorter \cup {Append(s, x) : s \in {t \in shorter : Len(t) = n - 1}, x \in S}

\* tool_library.search(problem_description, top_k)["documents"][0]: a ranked
\* list of at most top_k stored documents, each registered function at most once
SearchResults == {s \in SeqsUpTo(Documents, top_k_functions) : Distinct(s)}

\* the libraries: what search returns for each description
Libraries == [Descriptions -> SearchResults]

\* ----------------------------------------------------------- search_tools

\* [json.loads(e) for e in s]
LoadAll(s) == [i \in 1..Len(s) |-> json_loads(s[i])]

\* every document of res, seen before or not
AllTools(res, hash_res) == LoadAll(res)

\* line 72: [json.loads(e) for e in res if e not in hash_res]
NewTools(res, hash_res) ==
    LoadAll(SelectSeq(res, LAMBDA e : ~InSeq(e, hash_res)))

\* the for loop of search_tools putting the new tools in front of the old ones
RECURSIVE search_loop_prepending(_, _, _, _)
search_loop_prepending(action_descriptions, library, json_res, hash_res) ==
    IF action_descriptions = <<>> THEN json_res
    ELSE LET res == library[Head(action_descriptions)]
             json_res_ == NewTools(res, hash_res)
         IN  search_loop_prepending(Tail(action_descriptions), library,
                                    json_res_ \o json_res, hash_res \o res)

\* one pass of the for loop of search_tools (lines 68-77) over the remaining
\* descriptions, with the locals json_res and hash_res
RECURSIVE search_loop(_, _, _, _)
search_loop(action_descriptions, library, json_res, hash_res) ==
    IF action_descriptions = <<>> THEN json_res
    ELSE LET res == library[Head(action_descriptions)]
             json_res_ == NewTools(res, hash_res)
         IN  search_loop(Tail(action_descriptions), library,
                         json_res \o json_res_, hash_res \o res)

search_tools(action_descriptions, library) ==
    search_loop(action_descriptions, library, <<>>, <<>>)

DescriptionLists == SeqsUpTo(Descriptions, MaxDescs)

\* ------------------------------------------------------------------ state

VARIABLES
    messages,      \* self.messages: the conversation transcript
    tool_library,  \* self.tool_library: what search returns per description
    pc,            \* where the running query stands
    qid,           \* number of query invocations made on the agent
    calls,         \* chat-completion calls that have succeeded on the agent
    errors,        \* consecutive OpenAIErrors in the running __get_response
    request,       \* tools and tool_choice of the running __get_response
    tools,         \* query's local tools: the schemas found by the search
    tool_calls,    \* query's local tool_calls of the tool loop
    idx,           \* position of the for loop over tool_calls
    actions,       \* actions_response_message.content
    result,        \* the value query returned
    error,         \* the exception query raised
    log,           \* history: the external calls of the running query, in order
    search_in,     \* search_tools on its own: the action descriptions
    search_out,    \* search_tools on its own: the list returned
    search_done    \* search_tools on its own: whether it has returned

vars == <<messages, tool_library, pc, qid, calls, errors, request, tools,
          tool_calls, idx, actions, result, error, log,
          search_in, search_out, search_done>>

searchVars == <<search_in, search_out, search_done>>

\* --------------------------------------------------------------- messages

\* message.tool_calls is None, or a list of tool calls
None == [none |-> TRUE, list |-> <<>>]
List(l) == [none |-> FALSE, list |-> l]

\* Python's truth value of tool_calls (line 186: while tool_calls)
Truthy(tc) == ~tc.none /\ tc.list # <<>>

NoId == <<>>

Content(text, ref) == [text |-> text, ref |-> ref]

NoContent == Content("", 0)

\* a transcript entry; qid and phase record which query appended it and where
Message(role, content, tcs, id, name, q, phase) ==
    [role |-> role, content |-> content, tool_calls |-> tcs,
     tool_call_id |-> id, name |-> name, qid |-> q, phase |-> phase]

\* TULIP_PROMPT, line 43
SystemMessage ==
    Message("system", Content("TULIP_PROMPT", 0), None, NoId, "", 0, "Init")

\* lines 109-117
AnalyzeMessage(q) ==
    Message("user", Content("Considering the following user request", q),
            None, NoId, "", q, "Decompose")

\* lines 128-133
SearchMessage(q) ==
    Message("user", Content("Now search for appropriate tools", 0),
            None, NoId, "", q, "SearchTools")

\* lines 157-164
SearchToolMessage(tool_call, q) ==
    Message("tool", Content("Successfully provided suitable tools.", 0),
            None, tool_call.id, tool_call.name, q, "SearchTools")

\* lines 167-177: quotes actions_response_message.content
RunMessage(steps, q) ==
    Message("user", Content("Now use the tools to fulfill the user request", steps.ref),
            None, NoId, "", q, "RespondWithTools")

\* a tool message that is not keyed by the call identifier
ToolMessageUnkeyed(tool_call, function_response, q) ==
    Message("tool", function_response, None, NoId, tool_call.name,
            q, "ExecuteTools")

\* lines 195-202
ToolMessage(tool_call, function_response, q) ==
    Message("tool", function_response, None, tool_call.id, tool_call.name,
            q, "ExecuteTools")

\* lines 45-64
search_tools_description == [type |-> "function", name |-> "search_tools"]

\* --------------------------------------------------- the model's responses

\* tool_call.function.arguments: a string that json.loads parses or rejects
Arguments(l) == [json_ok |-> TRUE, action_descriptions |-> l]
NotJson == [json_ok |-> FALSE, action_descriptions |-> <<>>]

Call(name, arguments) == [name |-> name, arguments |-> arguments]

\* the n-th response of the API: content n, tool calls with fresh identifiers
ResponseMessage(n, shape, q, phase) ==
    Message("assistant", Content("response", n),
            IF shape.none THEN None
            ELSE List([k \in 1..Len(shape.list) |->
                         [id |-> <<n, k>>,
                          name |-> shape.list[k].name,
                          arguments |-> shape.list[k].arguments]]),
            NoId, "", q, phase)

\* the search calls the model may make: no description, one, two
SearchCalls == {Call("search_tools", Arguments(l)) :
                    l \in {<<>>, <<"d1">>, <<"d1", "d2">>}}

\* what the model may answer to the decomposition request
DecomposeReplies == {None, List(<<Call("search_tools", Arguments(<<"d1">>))>>)}

\* what the model may answer to the forced search request
SearchReplies ==
    {None, List(<<>>)}
    \cup {List(<<c>>) : c \in SearchCalls}
    \cup {List(<<Call("search_tools", NotJson)>>),
          List(<<Call("capital", Arguments(<<>>))>>),
          List(<<Call("capital", NotJson)>>),
          List(<<Call("search_tools", Arguments(<<"d1">>)),
                 Call("search_tools", Arguments(<<"d2">>))>>)}

\* the tool calls the model may make in the tool loop: a registered function,
\* an unregistered one, and arguments that are not JSON
ToolCallReplies ==
    {List(<<Call("capital", Arguments(<<>>))>>),
     List(<<Call("ghost", Arguments(<<>>))>>),
     List(<<Call("capital", NotJson)>>),
     List(<<Call("capital", Arguments(<<>>)), Call("ghost", Arguments(<<>>))>>),
     List(<<Call("ghost", Arguments(<<>>)), Call("capital", NotJson)>>)}

FinalReplies == {None, List(<<>>)}

\* ------------------------------------------------------------ tool library

\* tool_library.execute(function_name, function_args): the registered
\* function's result, or the execution error as the result
execute(function_name, function_args) ==
    IF function_name \in Registered
    THEN Content("result", 0)
    ELSE Content("Error: invalid tool call", 0)

\* the libraries a query runs against: overlapping results, and an empty one
QueryLibraries ==
    {[d \in Descriptions |->
        IF d = "d1" THEN <<Document("capital"), Document("language")>>
        ELSE <<Document("language"), Document("area")>>],
     [d \in Descriptions |-> <<>>]}

\* ----------------------------------------------------------- __get_response

\* the tool choice sent as given, whatever the tools
RequestAsGiven(tools_, tool_choice) ==
    [tools |-> tools_, tool_choice |-> tool_choice]

\* lines 91-97: the tools and the tool choice sent; msgs is self.messages
Request(tools_, tool_choice) ==
    [tools |-> tools_,
     tool_choice |-> IF tools_ # <<>> THEN tool_choice ELSE "none"]

NoRequest == [tools |-> <<>>, tool_choice |-> ""]

CallPoints == {"Decompose", "SearchTools", "RespondWithTools"}

Event(ev, id) == [ev |-> ev, id |-> id]

\* ---------------------------------------------------------------- actions

Init ==
    /\ messages = <<SystemMessage>>
    /\ tool_library \in QueryLibraries
    /\ pc = "Idle"
    /\ qid = 0
    /\ calls = 0
    /\ errors = 0
    /\ request = NoRequest
    /\ tools = <<>>
    /\ tool_calls = None
    /\ idx = 0
    /\ actions = NoContent
    /\ result = NoContent
    /\ error = ""
    /\ log = <<>>
    /\ search_in = <<>>
    /\ search_out = <<>>
    /\ search_done = FALSE

\* query raises: nothing of it runs any more
Raise(exception) ==
    /\ pc' = "Aborted"
    /\ error' = exception
    /\ request' = NoRequest
    /\ errors' = 0

\* a transcript started afresh by each query
AnalyzeAfresh(msgs, q) == <<SystemMessage, AnalyzeMessage(q)>>

\* lines 109-117: self.messages.append of the request
Analyze(msgs, q) == Append(msgs, AnalyzeMessage(q))

\* lines 102-122: query is called, appends the request and asks for the steps
StartQuery ==
    /\ pc \in {"Idle", "Done", "Aborted"}
    /\ qid < MaxQueries
    /\ qid' = qid + 1
    /\ messages' = Analyze(messages, qid + 1)
    /\ pc' = "Decompose"
    /\ request' = Request(<<search_tools_description>>, "none")
    /\ errors' = 0
    /\ tools' = <<>>
    /\ tool_calls' = None
    /\ idx' = 0
    /\ actions' = NoContent
    /\ result' = NoContent
    /\ error' = ""
    /\ log' = <<>>
    /\ UNCHANGED <<tool_library, calls, searchVars>>

\* the API call raises OpenAIError and __get_response lets it through
ApiErrorRaised ==
    /\ pc \in CallPoints
    /\ errors < MaxErrors
    /\ Raise("OpenAIError")
    /\ UNCHANGED <<messages, tool_library, qid, calls, tools, tool_calls, idx,
                   actions, result, log, searchVars>>

\* the API call raises OpenAIError and the error is put into the transcript
\* before the loop calls again
ApiErrorRecorded ==
    /\ pc \in CallPoints
    /\ errors < MaxErrors
    /\ errors' = errors + 1
    /\ messages' = Append(messages,
                          Message("user", Content("OpenAIError", 0), None, NoId, "",
                                  qid, pc))
    /\ UNCHANGED <<tool_library, pc, qid, calls, request, tools, tool_calls,
                   idx, actions, result, error, log, searchVars>>

\* lines 89-99: the API call raises OpenAIError; it is logged and the loop
\* calls again
ApiError ==
    /\ pc \in CallPoints
    /\ errors < MaxErrors
    /\ errors' = errors + 1
    /\ UNCHANGED <<messages, tool_library, pc, qid, calls, request, tools,
                   tool_calls, idx, actions, result, error, log, searchVars>>

\* the decomposition response with its tool calls carried out: a search_tools
\* call in it searches the tool library
DecomposeResponseExecuted(reply) ==
    /\ pc = "Decompose"
    /\ calls + 3 <= MaxApiCalls
    /\ LET actions_response_message ==
               ResponseMessage(calls + 1, reply, qid, "Decompose")
           tcs == actions_response_message.tool_calls
       IN  /\ messages' = messages \o <<actions_response_message, SearchMessage(qid)>>
           /\ actions' = actions_response_message.content
           /\ IF Truthy(tcs)
              THEN /\ tools' = search_tools(tcs.list[1].arguments.action_descriptions,
                                            tool_library)
                   /\ log' = log \o <<Event("Decompose", NoId),
                                      Event("search", tcs.list[1].id)>>
              ELSE /\ tools' = tools
                   /\ log' = Append(log, Event("Decompose", NoId))
    /\ calls' = calls + 1
    /\ pc' = "SearchTools"
    /\ request' = Request(<<search_tools_description>>, "search_tools")
    /\ errors' = 0
    /\ UNCHANGED <<tool_library, qid, tool_calls, idx, result, error, searchVars>>

\* lines 118-138: the decomposition response arrives; it is appended, then the
\* search instruction, and the forced search call is issued
DecomposeResponse(reply) ==
    /\ pc = "Decompose"
    /\ calls + 3 <= MaxApiCalls
    /\ LET actions_response_message ==
               ResponseMessage(calls + 1, reply, qid, "Decompose")
       IN  /\ messages' = messages \o <<actions_response_message, SearchMessage(qid)>>
           /\ actions' = actions_response_message.content
    /\ calls' = calls + 1
    /\ pc' = "SearchTools"
    /\ request' = Request(<<search_tools_description>>, "search_tools")
    /\ errors' = 0
    /\ log' = Append(log, Event("Decompose", NoId))
    /\ UNCHANGED <<tool_library, qid, tools, tool_calls, idx, result, error,
                   searchVars>>

\* the checks on the search response with "at least one call" asserted
SearchFailureAtLeastOne(tcs) ==
    IF tcs.none THEN "TypeError"
    ELSE IF Len(tcs.list) < 1 THEN "AssertionError"
    ELSE IF ~tcs.list[1].arguments.json_ok THEN "JSONDecodeError"
    ELSE IF tcs.list[1].name # "search_tools" THEN "AssertionError"
    ELSE ""

\* lines 142-150: what the checks on the search response raise ("" when they
\* pass): len(tool_calls) of None, the assertion on the number of calls,
\* json.loads of the arguments, the assertion on the function name
SearchFailure(tcs) ==
    IF tcs.none THEN "TypeError"
    ELSE IF Len(tcs.list) # 1 THEN "AssertionError"
    ELSE IF ~tcs.list[1].arguments.json_ok THEN "JSONDecodeError"
    ELSE IF tcs.list[1].name # "search_tools" THEN "AssertionError"
    ELSE ""

\* lines 157-177: what the search phase appends once the search has run
SearchAppends(tool_call, steps, q) ==
    <<SearchToolMessage(tool_call, q), RunMessage(steps, q)>>

\* lines 134-182: the search response arrives and is appended; the checks on
\* it pass or query raises; the tool library is searched, the tool message and
\* the instruction to run are appended and the first call of the tool loop
\* is issued
SearchResponse(reply) ==
    /\ pc = "SearchTools"
    /\ calls + 2 <= MaxApiCalls
    /\ calls' = calls + 1
    /\ LET response_message ==
               ResponseMessage(calls + 1, reply, qid, "SearchTools")
           tcs == response_message.tool_calls
           failure == SearchFailure(tcs)
       IN  IF failure # ""
           THEN /\ messages' = Append(messages, response_message)
                /\ Raise(failure)
                /\ log' = Append(log, Event("SearchTools", NoId))
                /\ UNCHANGED tools
           ELSE LET tool_call == tcs.list[1]
                    args == tool_call.arguments
                    tools_ == search_tools(args.action_descriptions, tool_library)
                IN  /\ tools' = tools_
                    /\ messages' = Append(messages, response_message)
                                   \o SearchAppends(tool_call, actions, qid)
                    /\ pc' = "RespondWithTools"
                    /\ request' = Request(tools_, "auto")
                    /\ errors' = 0
                    /\ error' = error
                    /\ log' = log \o <<Event("SearchTools", NoId),
                                       Event("search", tool_call.id)>>
    /\ UNCHANGED <<tool_library, qid, tool_calls, idx, actions, result,
                   searchVars>>

\* lines 178-187 and 207-214: a response of the tool loop that carries tool
\* calls; it is appended and the for loop over its calls begins
RespondToolCalls(reply) ==
    /\ pc = "RespondWithTools"
    /\ calls + 2 <= MaxApiCalls
    /\ Truthy(reply)
    /\ calls' = calls + 1
    /\ LET response_message ==
               ResponseMessage(calls + 1, reply, qid, "RespondWithTools")
       IN  /\ messages' = Append(messages, response_message)
           /\ tool_calls' = response_message.tool_calls
    /\ idx' = 1
    /\ pc' = "ExecuteTools"
    /\ request' = NoRequest
    /\ errors' = 0
    /\ log' = Append(log, Event("RespondWithTools", NoId))
    /\ UNCHANGED <<tool_library, qid, tools, actions, result, error, searchVars>>

\* the final response returned without being appended
RespondFinalNotAppended(reply) ==
    /\ pc = "RespondWithTools"
    /\ calls + 1 <= MaxApiCalls
    /\ ~Truthy(reply)
    /\ calls' = calls + 1
    /\ LET response_message ==
               ResponseMessage(calls + 1, reply, qid, "RespondWithTools")
       IN  /\ tool_calls' = response_message.tool_calls
           /\ result' = response_message.content
    /\ pc' = "Done"
    /\ request' = NoRequest
    /\ errors' = 0
    /\ log' = Append(log, Event("RespondWithTools", NoId))
    /\ UNCHANGED <<messages, tool_library, qid, tools, idx, actions, error,
                   searchVars>>

\* lines 178-186, 207-215: a response of the tool loop without tool calls; the
\* loop ends, the response is appended and its content returned
RespondFinal(reply) ==
    /\ pc = "RespondWithTools"
    /\ calls + 1 <= MaxApiCalls
    /\ ~Truthy(reply)
    /\ calls' = calls + 1
    /\ LET response_message ==
               ResponseMessage(calls + 1, reply, qid, "RespondWithTools")
       IN  /\ messages' = Append(messages, response_message)
           /\ tool_calls' = response_message.tool_calls
           /\ result' = response_message.content
    /\ pc' = "Done"
    /\ request' = NoRequest
    /\ errors' = 0
    /\ log' = Append(log, Event("RespondWithTools", NoId))
    /\ UNCHANGED <<tool_library, qid, tools, idx, actions, error, searchVars>>

\* lines 189-213: one pass of the for loop over tool_calls: the arguments are
\* parsed, the tool library executes the function, the tool message is
\* appended; after the last call the next call of the tool loop is issued
ExecuteTool ==
    /\ pc = "ExecuteTools"
    /\ idx <= Len(tool_calls.list)
    /\ LET tool_call == tool_calls.list[idx]
           func_name == tool_call.name
           func_args == tool_call.arguments
       IN  IF ~func_args.json_ok
           THEN /\ Raise("JSONDecodeError")
                /\ UNCHANGED <<messages, idx, log>>
           ELSE LET function_response == execute(func_name, func_args)
                IN  /\ messages' = Append(messages,
                                          ToolMessage(tool_call, function_response, qid))
                    /\ log' = Append(log, Event("execute", tool_call.id))
                    /\ idx' = idx + 1
                    /\ IF idx = Len(tool_calls.list)
                       THEN /\ pc' = "RespondWithTools"
                            /\ request' = Request(tools, "auto")
                       ELSE /\ pc' = "ExecuteTools"
                            /\ request' = request
                    /\ errors' = 0
                    /\ error' = error
    /\ UNCHANGED <<tool_library, qid, calls, tools, tool_calls, actions, result,
                   searchVars>>

Next ==
    \/ StartQuery
    \/ ApiError
    \/ \E reply \in DecomposeReplies : DecomposeResponse(reply)
    \/ \E reply \in SearchReplies : SearchResponse(reply)
    \/ \E reply \in ToolCallReplies : RespondToolCalls(reply)
    \/ \E reply \in FinalReplies : RespondFinal(reply)
    \/ ExecuteTool

Spec == Init /\ [][Next]_vars

\* the tool loop under the assumptions of termination: a tool execution
\* returns, and the API call that the loop is waiting on succeeds with a
\* response of the model that ends the loop once the model has no more tool
\* calls to make (MaxApiCalls bounds the responses that carry tool calls)
LoopFairness ==
    /\ WF_vars(ExecuteTool)
    /\ WF_vars(\E reply \in FinalReplies : RespondFinal(reply))

LiveSpec == Init /\ [][Next]_vars /\ LoopFairness

\* ------------------------------------------------- search_tools on its own

SearchInit ==
    /\ messages = <<SystemMessage>>
    /\ tool_library \in Libraries
    /\ pc = "Idle"
    /\ qid = 0
    /\ calls = 0
    /\ errors = 0
    /\ request = NoRequest
    /\ tools = <<>>
    /\ tool_calls = None
    /\ idx = 0
    /\ actions = NoContent
    /\ result = NoContent
    /\ error = ""
    /\ log = <<>>
    /\ search_in \in DescriptionLists
    /\ search_out = <<>>
    /\ search_done = FALSE

\* lines 66-78: search_tools is called with the action descriptions
SearchToolsCall ==
    /\ ~search_done
    /\ search_out' = search_tools(search_in, tool_library)
    /\ search_done' = TRUE
    /\ UNCHANGED <<messages, tool_library, pc, qid, calls, errors, request,
                   tools, tool_calls, idx, actions, result, error, log,
                   search_in>>

SearchNext == SearchToolsCall

SearchSpec == SearchInit /\ [][SearchNext]_vars

\* ----------------------------------------------------------------- claims

IsPrefix(s, t) == Len(s) <= Len(t) /\ \A i \in 1..Len(s) : s[i] = t[i]

Indices(q, role, phase) ==
    {i \in 1..Len(messages) :
        /\ messages[i].qid = q
        /\ messages[i].role = role
        /\ messages[i].phase = phase}

\* query q has reached the RespondWithTools phase: its instruction to run the
\* tools (line 167) is in the transcript
ReachedRespond(q) == Indices(q, "user", "RespondWithTools") # {}

Events(ev) == {i \in 1..Len(log) : log[i].ev = ev}

\* C1: a query that has reached RespondWithTools had a search response with
\* exactly one tool call, named search_tools; exactly one tool message, keyed by
\* that call, answers it in the transcript; and for the running query the one
\* library search was driven by that call: tools is what search_tools returns
\* for its action descriptions
C1_ExactlyOneSearchCall ==
    \A q \in 1..qid :
        ReachedRespond(q) =>
            /\ Cardinality(Indices(q, "assistant", "SearchTools")) = 1
            /\ Cardinality(Indices(q, "tool", "SearchTools")) = 1
            /\ LET r == messages[CHOOSE i \in Indices(q, "assistant", "SearchTools") : TRUE]
                   t == messages[CHOOSE i \in Indices(q, "tool", "SearchTools") : TRUE]
               IN  /\ ~r.tool_calls.none
                   /\ Len(r.tool_calls.list) = 1
                   /\ r.tool_calls.list[1].name = "search_tools"
                   /\ t.tool_call_id = r.tool_calls.list[1].id
                   /\ t.name = "search_tools"
                   /\ q = qid =>
                        /\ Cardinality(Events("search")) = 1
                        /\ \A i \in Events("search") :
                               log[i].id = r.tool_calls.list[1].id
                        /\ tools = search_tools(
                               r.tool_calls.list[1].arguments.action_descriptions,
                               tool_library)

\* C1 witness: the tool loop is reached after a search that found tools
C1_Witness ==
    /\ pc = "RespondWithTools"
    /\ ReachedRespond(qid)
    /\ tools # <<>>

Count(x, s) == Cardinality({i \in 1..Len(s) : s[i] = x})

\* how often the library returns document e over the descriptions asked for
Returned(e) ==
    Cardinality({<<i, j>> \in (1..Len(search_in)) \X (1..top_k_functions) :
                    /\ j <= Len(tool_library[search_in[i]])
                    /\ tool_library[search_in[i]][j] = e})

\* C3: a document the library returns more than once over the action
\* descriptions of one search_tools call occurs exactly once in the result
C3_Deduplicated ==
    search_done =>
        \A e \in Documents :
            Returned(e) > 1 => Count(json_loads(e), search_out) = 1

\* C3 witness: a search over two descriptions that both return a document
C3_Witness ==
    /\ search_done
    /\ Len(search_in) = 2
    /\ search_in[1] # search_in[2]
    /\ \E e \in Documents : Returned(e) = 2

InToolLoop(q) == qid = q /\ pc \in {"RespondWithTools", "ExecuteTools"}

\* C2: the tool loop terminates and query returns: a query that is in the
\* tool loop eventually reaches Done
C2_LoopReturns ==
    \A q \in 1..MaxQueries : InToolLoop(q) ~> (qid = q /\ pc = "Done")

\* the tool loop does end: in Done, or with the exception raised by json.loads
\* of a tool call's arguments (line 191)
LoopEnds ==
    \A q \in 1..MaxQueries :
        InToolLoop(q) ~>
            (qid = q /\ (pc = "Done" \/ (pc = "Aborted" /\ error = "JSONDecodeError")))

\* C4: API errors are retried without limit: at a call of __get_response, a
\* step in which no API call succeeds is a failed attempt that leaves query
\* where it is, with the same request and no exception raised, and the loop
\* still calling; query moves on only with a response of a successful call,
\* which is the message it appends; an API error is never raised by query
C4_RetriedUntilSuccess ==
    [][/\ pc \in CallPoints /\ calls' = calls =>
            /\ errors' = errors + 1
            /\ pc' = pc
            /\ request' = request
            /\ messages' = messages
            /\ error' = error
       /\ pc \in CallPoints /\ pc' # pc =>
            /\ calls' = calls + 1
            /\ Len(messages') > Len(messages)
            /\ messages'[Len(messages) + 1].role = "assistant"
            /\ messages'[Len(messages) + 1].content = Content("response", calls')
       /\ error' # "OpenAIError"]_vars

\* C4 witness: MaxErrors consecutive errors, and __get_response still calling
C4_Witness ==
    /\ pc = "RespondWithTools"
    /\ errors = MaxErrors
    /\ request.tool_choice = "auto"

\* the search response of the running query, once it is in the transcript
SearchResponses == Indices(qid, "assistant", "SearchTools")

ViolatesProtocol(m) ==
    \/ m.tool_calls.none
    \/ Len(m.tool_calls.list) # 1
    \/ m.tool_calls.list[1].name # "search_tools"

\* C5: a search response with no tool call, with more than one, or with a call
\* of another function ends query with an assertion failure, and no tool
\* library search, tool execution or further model call is made by that query
C5_AssertionFailure ==
    \A i \in SearchResponses :
        ViolatesProtocol(messages[i]) =>
            /\ pc = "Aborted"
            /\ error = "AssertionError"
            /\ Events("search") = {}
            /\ Events("execute") = {}
            /\ Events("RespondWithTools") = {}

\* the tool call that the for loop of the tool loop is at
AtUnregistered ==
    /\ pc = "ExecuteTools"
    /\ idx <= Len(tool_calls.list)
    /\ tool_calls.list[idx].name \notin Registered
    /\ tool_calls.list[idx].arguments.json_ok

\* C6: executing a call of an unregistered function appends a tool message for
\* the call's identifier whose content is the execution error; query is not
\* aborted and goes on: to the next tool call, or after the last one to the
\* next model call
C6_UnknownToolSurfaced ==
    [][AtUnregistered =>
          LET tool_call == tool_calls.list[idx]
          IN  /\ Len(messages') = Len(messages) + 1
              /\ IsPrefix(messages, messages')
              /\ messages'[Len(messages')].role = "tool"
              /\ messages'[Len(messages')].tool_call_id = tool_call.id
              /\ messages'[Len(messages')].name = tool_call.name
              /\ messages'[Len(messages')].content = Content("Error: invalid tool call", 0)
              /\ error' = ""
              /\ IF idx = Len(tool_calls.list)
                 THEN pc' = "RespondWithTools" /\ request' = Request(tools, "auto")
                 ELSE pc' = "ExecuteTools" /\ idx' = idx + 1]_vars

\* C6 witness: the error of an unregistered function is in the transcript and
\* the next model call is running
C6_Witness ==
    /\ pc = "RespondWithTools"
    /\ messages[Len(messages)].role = "tool"
    /\ messages[Len(messages)].name = "ghost"
    /\ messages[Len(messages)].content = Content("Error: invalid tool call", 0)

LoopResponses == Indices(qid, "assistant", "RespondWithTools")

\* C7: when query has returned, the value returned is the content of the last
\* message of the transcript, which is a response of the tool loop without
\* tool calls and the first such response of the query; no response with tool
\* calls has its content returned
C7_ReturnsFinalContent ==
    pc = "Done" =>
        /\ Len(messages) \in LoopResponses
        /\ ~Truthy(messages[Len(messages)].tool_calls)
        /\ result = messages[Len(messages)].content
        /\ \A i \in LoopResponses \ {Len(messages)} : Truthy(messages[i].tool_calls)
        /\ \A i \in 1..Len(messages) :
               messages[i].role = "assistant" /\ Truthy(messages[i].tool_calls)
                   => messages[i].content # result

\* C7 witness: query has returned after a round of tool execution
C7_Witness ==
    /\ pc = "Done"
    /\ Events("execute") # {}
    /\ result = Content("response", calls)

\* C8: the transcript is append-only: every step leaves the transcript it
\* found as a prefix of the transcript it leaves
C8_AppendOnly == [][IsPrefix(messages, messages')]_vars

\* C8 witness: a second query has returned on an agent whose first query aborted
C8_Witness ==
    /\ qid = 2
    /\ pc = "Done"
    /\ ~ReachedRespond(1)
    /\ Indices(1, "assistant", "SearchTools") # {}

\* C9 as stated: the messages sent to the model are the system prompt followed
\* only by messages of the running query
C9_OwnedByOneQuery ==
    pc \in CallPoints =>
        /\ messages[1] = SystemMessage
        /\ \A i \in 2..Len(messages) : messages[i].qid = qid

\* C9 amended: the messages sent to the model are the system prompt followed by
\* the messages of every query made on the agent so far, in the order of the
\* queries, each query's request among them
C9_OwnedByAgent ==
    pc \in CallPoints =>
        /\ messages[1] = SystemMessage
        /\ \A i \in 2..Len(messages) : messages[i].qid \in 1..qid
        /\ \A i, j \in 2..Len(messages) : i < j => messages[i].qid <= messages[j].qid
        /\ \A q \in 1..qid : InSeq(AnalyzeMessage(q), messages)

\* C9 witness: a model call of the second query
C9_Witness ==
    /\ pc \in CallPoints
    /\ qid = 2
    /\ ReachedRespond(1)

\* C10: when query has returned, the transcript holds no message of its tool
\* search: not the search instruction, the search response or its tool message
C10_SearchNotTracked ==
    pc = "Done" => \A i \in 1..Len(messages) :
                       messages[i].qid = qid => messages[i].phase # "SearchTools"

\* in the running query, every event later comes after an event ev
Precedes(ev, later) ==
    \A j \in Events(later) : \E i \in Events(ev) : i < j

\* C11: query passes through its phases in the order Decompose, SearchTools,
\* RespondWithTools, (ExecuteTools, RespondWithTools)*, Done: the decomposition
\* call precedes the search call, the library search precedes the first call
\* of the tool loop and every tool execution, every ExecuteTools is followed
\* by RespondWithTools, and Done is entered only from RespondWithTools (the
\* search phase may end query by its assertions)
C11_PhaseOrder ==
    [][/\ pc \in {"Idle", "Done", "Aborted"} => pc' = "Decompose"
       /\ pc = "Decompose" => pc' \in {"Decompose", "SearchTools"}
       /\ pc = "SearchTools" => pc' \in {"SearchTools", "RespondWithTools", "Aborted"}
       /\ pc = "RespondWithTools" => pc' \in {"RespondWithTools", "ExecuteTools", "Done"}
       /\ pc = "ExecuteTools" => pc' \in {"ExecuteTools", "RespondWithTools"}
       /\ pc' = "Done" => pc = "RespondWithTools"
       /\ Precedes("Decompose", "SearchTools")'
       /\ Precedes("search", "RespondWithTools")'
       /\ Precedes("search", "execute")']_vars

\* the phases do follow that order when the exception of json.loads in the
\* tool loop (line 191) is counted as a way out of ExecuteTools
PhaseOrderOrRaise ==
    [][/\ pc \in {"Idle", "Done", "Aborted"} => pc' = "Decompose"
       /\ pc = "Decompose" => pc' \in {"Decompose", "SearchTools"}
       /\ pc = "SearchTools" => pc' \in {"SearchTools", "RespondWithTools", "Aborted"}
       /\ pc = "RespondWithTools" => pc' \in {"RespondWithTools", "ExecuteTools", "Done"}
       /\ pc = "ExecuteTools" =>
             \/ pc' \in {"ExecuteTools", "RespondWithTools"}
             \/ pc' = "Aborted" /\ error' = "JSONDecodeError"
       /\ pc' = "Done" => pc = "RespondWithTools"
       /\ Precedes("Decompose", "SearchTools")'
       /\ Precedes("search", "RespondWithTools")'
       /\ Precedes("search", "execute")']_vars

\* the responses of the tool loop, of any query, that carry tool calls
ToolCallResponses ==
    {p \in 1..Len(messages) :
        /\ messages[p].role = "assistant"
        /\ messages[p].phase = "RespondWithTools"
        /\ Truthy(messages[p].tool_calls)}

\* the first k tool calls of the response at p are answered, in order, by the
\* k messages that follow it, each keyed by the call's identifier and name
Answered(p, k) ==
    \A i \in 1..k :
        /\ p + i <= Len(messages)
        /\ messages[p + i].role = "tool"
        /\ messages[p + i].phase = "ExecuteTools"
        /\ messages[p + i].tool_call_id = messages[p].tool_calls.list[i].id
        /\ messages[p + i].name = messages[p].tool_calls.list[i].name

\* the for loop over the tool calls of the response at p is running
Executing(p) ==
    /\ pc = "ExecuteTools"
    /\ messages[p].qid = qid
    /\ \A r \in ToolCallResponses : r <= p

\* the identifiers of the tool messages of the running query's tool loop
ExecutedIds ==
    LET t == SelectSeq(messages, LAMBDA m : m.qid = qid /\ m.phase = "ExecuteTools")
    IN  [i \in 1..Len(t) |-> t[i].tool_call_id]

\* the identifiers of the executions of the running query, in order
LoggedIds ==
    LET e == SelectSeq(log, LAMBDA x : x.ev = "execute")
    IN  [i \in 1..Len(e) |-> e[i].id]

\* C12: a response of the tool loop with tool calls c1..cn is followed in the
\* transcript by exactly n tool messages, the i-th keyed by identifier and name
\* of ci, each call executed once in that order, before the next model call;
\* while the for loop runs, the calls before its position are the ones answered
C12_EveryCallAnswered ==
    /\ \A p \in ToolCallResponses :
          LET n == Len(messages[p].tool_calls.list)
          IN  IF Executing(p)
              THEN /\ Answered(p, idx - 1)
                   /\ Len(messages) = p + idx - 1
              ELSE /\ Answered(p, n)
                   /\ p + n + 1 <= Len(messages) => messages[p + n + 1].role # "tool"
    /\ LoggedIds = ExecutedIds

\* the calls before the one whose arguments json.loads rejects are answered
\* in order, and nothing of the response after it
AnsweredUpToRaise ==
    /\ \A p \in ToolCallResponses :
          LET cs == messages[p].tool_calls.list
              bad == {i \in 1..Len(cs) : ~cs[i].arguments.json_ok}
              n == IF bad = {} THEN Len(cs)
                   ELSE (CHOOSE i \in bad : \A j \in bad : i <= j) - 1
          IN  IF Executing(p)
              THEN /\ Answered(p, idx - 1)
                   /\ Len(messages) = p + idx - 1
              ELSE /\ Answered(p, n)
                   /\ p + n + 1 <= Len(messages) => messages[p + n + 1].role # "tool"
    /\ LoggedIds = ExecutedIds

\* what the search of query q found: search_tools of the action descriptions
\* of the one call of its search response
Discovered(q) ==
    LET r == messages[CHOOSE i \in Indices(q, "assistant", "SearchTools") : TRUE]
    IN  search_tools(r.tool_calls.list[1].arguments.action_descriptions, tool_library)

\* C13 as stated: every model call of the tool loop is made with the tool
\* schemas that the query's search found and with the tool choice auto, also
\* when the search found nothing
C13_AlwaysAuto ==
    pc = "RespondWithTools" =>
        /\ request.tools = Discovered(qid)
        /\ request.tool_choice = "auto"

\* C13 amended: every model call of the tool loop is made with the tool
\* schemas that the query's search found, the same at every call; the tool
\* choice is auto when that list is not empty and none when it is empty
C13_AutoUnlessEmpty ==
    pc = "RespondWithTools" =>
        /\ request.tools = Discovered(qid)
        /\ tools = Discovered(qid)
        /\ request.tool_choice = IF Discovered(qid) = <<>> THEN "none" ELSE "auto"

\* C13 witness: a later call of the tool loop, after tools were executed, for a
\* search that found tools
C13_Witness ==
    /\ pc = "RespondWithTools"
    /\ Events("execute") # {}
    /\ Len(request.tools) = 3

\* C14: the decomposition call is made with the tool choice none; its response
\* is appended right after the request, its content kept for the run
\* instruction; and when the search call is running, nothing but the
\* decomposition call has been made by the query: no tool library search, no
\* tool execution, no tools found
C14_DecompositionNotExecuted ==
    /\ pc = "Decompose" =>
          /\ request = [tools |-> <<search_tools_description>>, tool_choice |-> "none"]
          /\ messages[Len(messages)] = AnalyzeMessage(qid)
          /\ log = <<>>
    /\ pc = "SearchTools" =>
          /\ Len(messages) >= 4
          /\ messages[Len(messages) - 2] = AnalyzeMessage(qid)
          /\ messages[Len(messages) - 1].role = "assistant"
          /\ messages[Len(messages) - 1].phase = "Decompose"
          /\ messages[Len(messages) - 1].content = actions
          /\ messages[Len(messages)] = SearchMessage(qid)
          /\ log = <<Event("Decompose", NoId)>>
          /\ tools = <<>>

\* C14 witness: the search call is running after a decomposition response that
\* carries a tool call
C14_Witness ==
    /\ pc = "SearchTools"
    /\ Truthy(messages[Len(messages) - 1].tool_calls)

\* the tool call c of the message at i is answered later in the transcript
AnsweredLater(i, c) ==
    \E j \in (i + 1)..Len(messages) :
        /\ messages[j].role = "tool"
        /\ messages[j].tool_call_id = c.id

\* C15: at every model call, every tool call carried by a search response or a
\* response of the tool loop in the transcript, of this query or an earlier
\* one, is answered by a tool message with its identifier later in the
\* transcript
C15_NoUnansweredCall ==
    pc \in CallPoints =>
        \A i \in 1..Len(messages) :
            /\ messages[i].role = "assistant"
            /\ messages[i].phase \in {"SearchTools", "RespondWithTools"}
            => \A k \in 1..Len(messages[i].tool_calls.list) :
                   AnsweredLater(i, messages[i].tool_calls.list[k])

\* what a call of __get_response sends, as query issued it: the request of the
\* phase, and a transcript that ends with what query appended last
AsIssued ==
    /\ pc = "Decompose" =>
          /\ request = Request(<<search_tools_description>>, "none")
          /\ messages[Len(messages)] = AnalyzeMessage(qid)
    /\ pc = "SearchTools" =>
          /\ request = Request(<<search_tools_description>>, "search_tools")
          /\ messages[Len(messages)] = SearchMessage(qid)
    /\ pc = "RespondWithTools" =>
          /\ request = Request(tools, "auto")
          /\ \/ messages[Len(messages)] = RunMessage(actions, qid)
             \/ /\ messages[Len(messages)].role = "tool"
                /\ messages[Len(messages)].phase = "ExecuteTools"
                /\ messages[Len(messages)].qid = qid

\* C16: a failed API attempt changes nothing but the count of attempts: the
\* transcript, the tools found and the request stay as they are, so after any
\* number of failures the call still sends what query issued, and the
\* successful attempt appends its response to the transcript as issued
C16_FailedAttemptChangesNothing ==
    [][/\ pc \in CallPoints /\ calls' = calls =>
            /\ errors' = errors + 1
            /\ UNCHANGED <<messages, tools, request, tool_calls, idx, actions,
                           pc, qid, log, result, error>>
       /\ AsIssued
       /\ AsIssued'
       /\ pc \in CallPoints /\ calls' = calls + 1 =>
            /\ IsPrefix(messages, messages')
            /\ messages'[Len(messages) + 1].role = "assistant"
            /\ messages'[Len(messages) + 1].phase = pc
            /\ messages'[Len(messages) + 1].content = Content("response", calls + 1)]_vars

\* C16 witness: the search call after MaxErrors failed attempts, in a query
\* whose decomposition call had succeeded
C16_Witness ==
    /\ pc = "SearchTools"
    /\ errors = MaxErrors
    /\ calls > 0

\* the successful model calls of the running query
ModelCalls ==
    Events("Decompose") \cup Events("SearchTools") \cup Events("RespondWithTools")

\* the model has honoured the tool choice none in the tool loop of the running
\* query: none of its responses there carries a tool call
HonouredNone == \A i \in LoopResponses : ~Truthy(messages[i].tool_calls)

\* C17: when the search of a query finds no tools, the call of the tool loop is
\* sent with the tool choice none; with a model that honours it, ExecuteTools
\* is not entered, no tool is executed, and query returns after exactly three
\* successful model calls
C17_NoToolsNoExecution ==
    ReachedRespond(qid) /\ tools = <<>> =>
        /\ pc = "RespondWithTools" => request.tool_choice = "none"
        /\ HonouredNone =>
              /\ pc \in {"RespondWithTools", "Done"}
              /\ Events("execute") = {}
              /\ pc = "Done" => Cardinality(ModelCalls) = 3
              /\ pc = "RespondWithTools" => Cardinality(ModelCalls) = 2

\* C17 witness: a query whose search found no tools has returned
C17_Witness ==
    /\ pc = "Done"
    /\ ReachedRespond(qid)
    /\ tools = <<>>
    /\ Cardinality(ModelCalls) = 3

\* the documents the library returns for the descriptions before the i-th
ReturnedBefore(i) ==
    {tool_library[search_in[j]][k] :
        <<j, k>> \in {jk \in (1..(i - 1)) \X (1..top_k_functions) :
                         jk[2] <= Len(tool_library[search_in[jk[1]]])}}

\* the tools of the i-th description: its documents, in the library's order,
\* without those returned for an earlier description
KeptOf(i) ==
    LoadAll(SelectSeq(tool_library[search_in[i]],
                      LAMBDA e : e \notin ReturnedBefore(i)))

RECURSIVE KeptUpTo(_)
KeptUpTo(i) == IF i = 0 THEN <<>> ELSE KeptUpTo(i - 1) \o KeptOf(i)

\* C18: the result of search_tools is the concatenation, in the order of the
\* action descriptions, of the documents returned for each description without
\* those already returned for an earlier one; so every document returned for a
\* description is in the result, and the result has at most top_k_functions
\* entries per description
C18_OrderedUnion ==
    search_done =>
        /\ search_out = KeptUpTo(Len(search_in))
        /\ \A i \in 1..Len(search_in) :
               \A k \in 1..Len(tool_library[search_in[i]]) :
                   InSeq(json_loads(tool_library[search_in[i]][k]), search_out)
        /\ Len(search_out) <= top_k_functions * Len(search_in)

\* C18 witness: two descriptions, the second returning a document of the first
\* and two new ones
C18_Witness ==
    /\ search_done
    /\ search_in = <<"d1", "d2">>
    /\ Len(tool_library["d1"]) = 2
    /\ Len(tool_library["d2"]) = 3
    /\ tool_library["d2"][2] = tool_library["d1"][1]
    /\ Len(search_out) = 3

====
